---- MODULE Spec2Model ----
(***************************************************************************)
(* Model of the community contribution form, src/src/app/community/page.tsx *)
(* (CommunityPage): the zod schema, the file-selection handler, the submit  *)
(* handler with its asynchronous transition, and the state they act on.     *)
(*                                                                          *)
(* Strings are TLA+ strings; Len is String.length.  A nullable value        *)
(* (T | null) is a sequence of length at most one: <<>> is null and <<v>>   *)
(* holds v.                                                                 *)
(*                                                                          *)
(* isPending is the flag of useTransition for an async action: true from    *)
(* startTransition until the async callback settles.  The awaited call of   *)
(* line 75 stands for the backend call (comment, lines 63-64); the model     *)
(* lets it resolve (lines 76-85) or throw into the catch branch (lines       *)
(* 86-93).  Each handler runs to completion in one step: the page is         *)
(* single-threaded and a handler yields only at the await.                   *)
(***************************************************************************)
EXTENDS Integers, Sequences, FiniteSets, TLC

VARIABLES
    formValues,        \* react-hook-form field values (useForm, line 47)
    errors,            \* formState.errors: the field issues currently shown
    isSubmitted,       \* formState.isSubmitted: handleSubmit ran since the last reset
    selectedFileName,  \* useState<string | null>, line 43
    fileInput,         \* the raw <input type="file"> FileList behind fileInputRef, line 44
    isPending,         \* useTransition, line 41
    summary,           \* useState<string | null>, line 42
    inflight,          \* closures of onSubmit suspended at the await of line 75
    dispatches,        \* number of service calls started (promises created at line 75)
    toasts,            \* notifications emitted through toast(), in order
    event              \* the last event delivered to the page

vars == <<formValues, errors, isSubmitted, selectedFileName, fileInput, isPending,
          summary, inflight, dispatches, toasts, event>>

(***************************************************************************)
(* Bounds and input sets                                                    *)
(***************************************************************************)
\* Cap on the number of submissions dispatched in one behaviour.
MaxSubmits == 2

Null == <<>>
Some(v) == <<v>>

\* Files the user can pick: one that follows the advertised guidance
\* (image, under 5MB) and one that breaks it in both type and size.
Files ==
    { [name |-> "dagger.jpg", size |-> 1048576, type |-> "image/jpeg"],
      [name |-> "notes.pdf",  size |-> 6291456, type |-> "application/pdf"] }

\* event.target.files of an input without the `multiple` attribute.
FileLists == {<<>>} \cup { <<f>> : f \in Files }

NameValues == { "", "A", "Ph", "Phurba Dagger", "with file" }

TextValues ==
    { "",
      "short",
      "nineteen characters",
      "twenty characters ok",
      "A ceremonial dagger used in ritual practice for generations." }

(***************************************************************************)
(* formSchema, lines 27-36                                                  *)
(***************************************************************************)
MinNameLen == 2
MinTextLen == 20

NameIssue ==
    [field |-> "artifactName",
     message |-> "Artifact name must be at least 2 characters."]
TextIssue ==
    [field |-> "contributionText",
     message |-> "Description must be at least 20 characters long."]

\* Variant: the bound of the name check off by one.
ArtifactNameIssuesOffByOne(v) == IF Len(v) <= MinNameLen THEN {NameIssue} ELSE {}

\* z.string().min(2): an issue when value.length < 2.
ArtifactNameIssues(v) == IF Len(v) < MinNameLen THEN {NameIssue} ELSE {}

\* z.string().min(20): an issue when value.length < 20.
ContributionTextIssues(v) == IF Len(v) < MinTextLen THEN {TextIssue} ELSE {}

\* The guidance the page only displays: accept="image/*,video/*" (line 152)
\* and "max 5MB" (line 166).
MaxAdvertisedBytes == 5 * 1024 * 1024
FollowsGuidance(f) ==
    /\ f.size <= MaxAdvertisedBytes
    /\ \/ SubSeq(f.type, 1, 6) = "image/"
       \/ SubSeq(f.type, 1, 6) = "video/"

FileIssue ==
    [field |-> "artifactFile",
     message |-> "Upload a relevant image or video (max 5MB)."]

\* Variant: a schema that enforces the displayed guidance.
ArtifactFileIssuesEnforced(f) ==
    IF f # Null /\ ~FollowsGuidance(f[1]) THEN {FileIssue} ELSE {}

\* z.instanceof(File).optional().nullable(): a File or null passes; nothing
\* about the file's size or type is looked at.
ArtifactFileIssues(f) == {}

\* z.object(...).safeParse: every key is checked, the issues are collected.
Validate(values) ==
    ArtifactNameIssues(values.artifactName)
        \cup ArtifactFileIssues(values.artifactFile)
        \cup ContributionTextIssues(values.contributionText)

\* The parsed output handed to onSubmit: the three keys, no trim, no coercion.
Parse(values) ==
    [artifactName     |-> values.artifactName,
     artifactFile     |-> values.artifactFile,
     contributionText |-> values.contributionText]

\* useForm defaultValues, lines 49-53.
defaultValues ==
    [artifactName |-> "", artifactFile |-> Null, contributionText |-> ""]

(***************************************************************************)
(* Summary template, lines 73 and 76                                        *)
(***************************************************************************)
\* Variant: a template that never mentions the file.
FileInfoOmitted(values) == ""

\* `values.artifactFile ? \` (with file: ${values.artifactFile.name})\` : ""`
FileInfo(values) ==
    IF values.artifactFile # Null
    THEN " (with file: " \o values.artifactFile[1].name \o ")"
    ELSE ""

SummaryText(values, fileInfo) ==
    "Thank you for your submission about \"" \o values.artifactName \o "\""
        \o fileInfo
        \o ". The data has been received and will be authenticated and added to the archive."

\* Variant: a success branch that shows the destructive toast.
SuccessToastDestructive == [title |-> "Error", variant |-> "destructive"]

SuccessToast == [title |-> "Contribution Received!", variant |-> "default"]
ErrorToast   == [title |-> "Error", variant |-> "destructive"]

(***************************************************************************)
(* Initial state: the component after mount                                 *)
(***************************************************************************)
Init ==
    /\ formValues = defaultValues
    /\ errors = {}
    /\ isSubmitted = FALSE
    /\ selectedFileName = Null
    /\ fileInput = <<>>
    /\ isPending = FALSE
    /\ summary = Null
    /\ inflight = <<>>
    /\ dispatches = 0
    /\ toasts = <<>>
    /\ event = "mount"

(***************************************************************************)
(* Field edits: field.onChange of the two text inputs, lines 131 and 183.   *)
(* After a submit attempt react-hook-form re-validates the edited field on  *)
(* change (reValidateMode "onChange").                                      *)
(***************************************************************************)
Revalidated(field, issues) ==
    IF isSubmitted
    THEN { e \in errors : e.field # field } \cup issues
    ELSE errors

\* Variant: a name input that is disabled while a submission is in flight.
EditArtifactNameDisabledWhilePending(v) ==
    /\ ~isPending
    /\ formValues' = [formValues EXCEPT !.artifactName = v]
    /\ errors' = Revalidated("artifactName", ArtifactNameIssues(v))
    /\ event' = "editName"
    /\ UNCHANGED <<isSubmitted, selectedFileName, fileInput, isPending, summary,
                   inflight, dispatches, toasts>>

EditArtifactName(v) ==
    /\ formValues' = [formValues EXCEPT !.artifactName = v]
    /\ errors' = Revalidated("artifactName", ArtifactNameIssues(v))
    /\ event' = "editName"
    /\ UNCHANGED <<isSubmitted, selectedFileName, fileInput, isPending, summary,
                   inflight, dispatches, toasts>>

EditContributionText(v) ==
    /\ formValues' = [formValues EXCEPT !.contributionText = v]
    /\ errors' = Revalidated("contributionText", ContributionTextIssues(v))
    /\ event' = "editText"
    /\ UNCHANGED <<isSubmitted, selectedFileName, fileInput, isPending, summary,
                   inflight, dispatches, toasts>>

(***************************************************************************)
(* handleFileChange, lines 57-61                                            *)
(***************************************************************************)
\* event.target.files?.[0] || null
FirstFile(files) == IF Len(files) = 0 THEN Null ELSE Some(files[1])

\* Variant: a selection that is added to the one already held.
MergeArtifactFile(old, file) == old \o file

\* form.setValue("artifactFile", file)
SetArtifactFile(old, file) == file

\* Variant: a handler that forgets setSelectedFileName.
DisplayNameStale(file) == selectedFileName

\* file ? file.name : null
DisplayName(file) == IF file # Null THEN Some(file[1].name) ELSE Null

handleFileChange(files) ==
    LET file == FirstFile(files) IN
    /\ fileInput' = files
    /\ formValues' = [formValues EXCEPT
                          !.artifactFile = SetArtifactFile(formValues.artifactFile, file)]
    /\ selectedFileName' = DisplayName(file)
    /\ event' = "selectFile"
    /\ UNCHANGED <<errors, isSubmitted, isPending, summary, inflight, dispatches,
                   toasts>>

(***************************************************************************)
(* Submission: the submit button (lines 191-195), form.handleSubmit         *)
(* (line 123) and onSubmit up to its await (lines 65-75)                     *)
(***************************************************************************)
\* Variant: a submit button that is never disabled.
SubmitAlwaysEnabled == TRUE

\* <Button type="submit" disabled={isPending}>: a disabled submit button
\* delivers no submit event to the form.
SubmitEnabled == ~isPending

\* Variant: an onSubmit that forgets setSummary(null).
onSubmitKeepsSummary(values) ==
    /\ isPending' = TRUE
    /\ inflight' = Append(inflight, [values |-> values, fileInfo |-> FileInfo(values)])
    /\ dispatches' = dispatches + 1
    /\ UNCHANGED <<formValues, selectedFileName, fileInput, toasts, summary>>

\* onSubmit(values), lines 65-75: the transition starts, the old summary is
\* dropped, fileInfo is computed and the closure suspends on the service call.
onSubmit(values) ==
    /\ isPending' = TRUE
    /\ summary' = Null
    /\ inflight' = Append(inflight, [values |-> values, fileInfo |-> FileInfo(values)])
    /\ dispatches' = dispatches + 1
    /\ UNCHANGED <<formValues, selectedFileName, fileInput, toasts>>

\* Variant: onSubmit called whether or not validation found issues.
handleSubmitUngated ==
    /\ isSubmitted' = TRUE
    /\ errors' = Validate(formValues)
    /\ dispatches < MaxSubmits
    /\ onSubmit(Parse(formValues))

\* form.handleSubmit(onSubmit): validate, publish the issues, and call
\* onSubmit with the parsed values only when there is none.
handleSubmit ==
    LET issues == Validate(formValues) IN
    /\ isSubmitted' = TRUE
    /\ errors' = issues
    /\ IF issues = {}
       THEN /\ dispatches < MaxSubmits
            /\ onSubmit(Parse(formValues))
       ELSE UNCHANGED <<formValues, selectedFileName, fileInput, isPending, summary,
                        inflight, dispatches, toasts>>

SubmitClick ==
    /\ event' = "submit"
    /\ IF SubmitEnabled
       THEN handleSubmit
       ELSE UNCHANGED <<formValues, errors, isSubmitted, selectedFileName, fileInput,
                        isPending, summary, inflight, dispatches, toasts>>

(***************************************************************************)
(* Service outcome: the continuation of onSubmit after the await            *)
(***************************************************************************)
\* Variant: a transition that never reports completion.
StillPendingStuck(rest) == TRUE

\* isPending stays true while an async action of the transition is running.
StillPending(rest) == Len(rest) > 0

\* Variant: a success branch that forgets form.reset().
formResetMissing == formValues

\* form.reset() with no argument, line 81: back to defaultValues.
formReset == defaultValues

\* Variant: a continuation that reads the form as it is when the service
\* answers, instead of the values onSubmit was called with.
ServiceResolvedReadsForm ==
    /\ inflight # <<>>
    /\ summary' = Some(SummaryText(formValues, FileInfo(formValues)))
    /\ toasts' = Append(toasts, SuccessToast)
    /\ formValues' = formReset
    /\ errors' = {}
    /\ isSubmitted' = FALSE
    /\ selectedFileName' = Null
    /\ fileInput' = <<>>
    /\ inflight' = Tail(inflight)
    /\ isPending' = StillPending(Tail(inflight))
    /\ event' = "resolved"
    /\ UNCHANGED dispatches

\* Lines 76-85: the awaited call resolved.
ServiceResolved ==
    /\ inflight # <<>>
    /\ LET job == Head(inflight) IN
       /\ summary' = Some(SummaryText(job.values, job.fileInfo))
       /\ toasts' = Append(toasts, SuccessToast)
       /\ formValues' = formReset
       /\ errors' = {}
       /\ isSubmitted' = FALSE
       /\ selectedFileName' = Null             \* setSelectedFileName(null)
       /\ fileInput' = <<>>                    \* fileInputRef.current.value = ""
       /\ inflight' = Tail(inflight)
       /\ isPending' = StillPending(Tail(inflight))
    /\ event' = "resolved"
    /\ UNCHANGED dispatches

\* Variant: a catch branch that resets the form as the success branch does.
ServiceRejectedReset ==
    /\ inflight # <<>>
    /\ toasts' = Append(toasts, ErrorToast)
    /\ formValues' = formReset
    /\ errors' = {}
    /\ isSubmitted' = FALSE
    /\ selectedFileName' = Null
    /\ fileInput' = <<>>
    /\ inflight' = Tail(inflight)
    /\ isPending' = StillPending(Tail(inflight))
    /\ event' = "rejected"
    /\ UNCHANGED <<summary, dispatches>>

\* Variant: a catch branch that calls the service again for the same values.
ServiceRejectedRetry ==
    /\ inflight # <<>>
    /\ toasts' = Append(toasts, ErrorToast)
    /\ dispatches' = dispatches + 1
    /\ event' = "rejected"
    /\ UNCHANGED <<formValues, errors, isSubmitted, selectedFileName, fileInput,
                   isPending, summary, inflight>>

\* Lines 86-93: the awaited call threw; only the destructive toast is shown.
ServiceRejected ==
    /\ inflight # <<>>
    /\ toasts' = Append(toasts, ErrorToast)
    /\ inflight' = Tail(inflight)
    /\ isPending' = StillPending(Tail(inflight))
    /\ event' = "rejected"
    /\ UNCHANGED <<formValues, errors, isSubmitted, selectedFileName, fileInput,
                   summary, dispatches>>

(***************************************************************************)
(* Summary card, lines 223-247: the branch rendered and the text it shows   *)
(***************************************************************************)
\* Variant: a card that never looks at isPending.
SummaryCardIgnoresPending ==
    IF summary # Null /\ summary[1] # ""
    THEN [branch |-> "result", text |-> summary[1]]
    ELSE [branch |-> "waiting", text |-> "Awaiting Input"]

\* isPending ? <pending> : summary ? <result: {summary}> : <waiting>
SummaryCard ==
    IF isPending
    THEN [branch |-> "pending", text |-> "Analyzing your input..."]
    ELSE IF summary # Null /\ summary[1] # ""
         THEN [branch |-> "result", text |-> summary[1]]
         ELSE [branch |-> "waiting", text |-> "Awaiting Input"]

Next ==
    \/ \E v \in NameValues : EditArtifactName(v)
    \/ \E v \in TextValues : EditContributionText(v)
    \/ \E files \in FileLists : handleFileChange(files)
    \/ SubmitClick
    \/ ServiceResolved
    \/ ServiceRejected

Spec == Init /\ [][Next]_vars

\* The awaited call of line 75 is a 2000 ms timer, which always fires: a
\* submission in flight is eventually answered.
FairSpec == Spec /\ WF_vars(ServiceResolved \/ ServiceRejected)

(***************************************************************************)
(* Views used by the properties                                             *)
(***************************************************************************)
\* AttachmentState as the page holds it: the form value, the displayed name
\* and the raw input widget.
AttachmentState == <<formValues.artifactFile, selectedFileName, fileInput>>

\* The controller state as the page holds it.
SubmissionState == <<isPending, summary>>

\* s contains t as a substring.
Contains(s, t) ==
    \E i \in 1..(Len(s) - Len(t) + 1) : SubSeq(s, i, i + Len(t) - 1) = t

(***************************************************************************)
(* Properties                                                               *)
(***************************************************************************)

\* C1: a submit event received while Pending is ignored: no second dispatch,
\* no change of SubmissionState, FormValues or AttachmentState; and in every
\* reachable state at most one submission is in flight.
C1_SubmitWhilePendingIgnored ==
    /\ [](Len(inflight) <= 1)
    /\ [][ (event' = "submit" /\ isPending) =>
              UNCHANGED <<SubmissionState, formValues, AttachmentState,
                          inflight, dispatches, toasts>> ]_vars

\* Reached: a submit event arrived while Pending, after the user had edited
\* the form away from the values in flight.
C1_Witness ==
    /\ event = "submit"
    /\ isPending
    /\ Len(inflight) = 1
    /\ formValues # inflight[1].values

\* C2 as stated: on serviceRejected, FormValues and AttachmentState equal the
\* values they had when the submit event was accepted.
C2_RejectedKeepsSubmittedValues ==
    [][ event' = "rejected" =>
          /\ formValues' = Head(inflight).values
          /\ selectedFileName' = DisplayName(Head(inflight).values.artifactFile) ]_vars

\* C2 amended: the serviceRejected transition itself leaves FormValues and
\* AttachmentState exactly as they were immediately before it.
C2_RejectedChangesNoUserData ==
    [][ event' = "rejected" => UNCHANGED <<formValues, AttachmentState>> ]_vars

\* Reached: a rejection arrived after the user had edited the form while
\* Pending (the values held are no longer valid, so they are not the ones
\* submitted), and the edited data is still there.
C2_Witness ==
    /\ event = "rejected"
    /\ Validate(formValues) # {}
    /\ formValues # defaultValues
    /\ selectedFileName # Null

\* C3: immediately after every serviceResolved transition FormValues equals
\* its defaults and AttachmentState is none.
C3_ResolvedResetsForm ==
    event = "resolved" =>
        /\ formValues = [artifactName |-> "", artifactFile |-> <<>>, contributionText |-> ""]
        /\ AttachmentState = <<Null, Null, <<>>>>

\* Reached: a submission resolved and the form is back at its defaults.
C3_Witness ==
    /\ event = "resolved"
    /\ summary # Null
    /\ formValues = defaultValues
    /\ fileInput = <<>>

\* C4: a submit event whose values fail validation, received while not
\* Pending, leaves SubmissionState unchanged, issues no dispatch, emits no
\* notification and leaves FormValues and AttachmentState unchanged; only
\* the field errors are surfaced.
C4_InvalidSubmitOnlySurfacesErrors ==
    [][ (event' = "submit" /\ ~isPending /\ Validate(formValues) # {}) =>
          /\ UNCHANGED <<SubmissionState, formValues, AttachmentState,
                         inflight, dispatches, toasts>>
          /\ errors' = Validate(formValues) ]_vars

\* Reached: an invalid submit was received in Succeeded; the summary stays
\* and the field errors are shown.
C4_Witness ==
    /\ event = "submit"
    /\ ~isPending
    /\ summary # Null
    /\ errors # {}
    /\ inflight = <<>>

\* C5: whenever no submission is in flight (Idle, Succeeded or Failed), a
\* submit event with valid values is accepted and moves the controller to
\* Pending with one dispatch.
C5_ValidSubmitReachesPending ==
    [][ (event' = "submit" /\ inflight = <<>> /\ Validate(formValues) = {}) =>
          /\ isPending'
          /\ Len(inflight') = 1
          /\ dispatches' = dispatches + 1 ]_vars

\* Reached: Pending again after a service rejection.
C5_Witness ==
    /\ event = "submit"
    /\ isPending
    /\ toasts # <<>>
    /\ toasts[Len(toasts)] = ErrorToast

\* C6: the number of dispatches grows by one exactly on a submit event that
\* is accepted (valid values, controller not Pending) and on no other event;
\* in particular a service rejection dispatches nothing.
C6_OneDispatchPerAcceptedSubmit ==
    [][ dispatches' = dispatches +
          (IF event' = "submit" /\ ~isPending /\ Validate(formValues) = {}
           THEN 1 ELSE 0) ]_vars

\* Reached: two submissions were dispatched, the first rejected, and the
\* second is the only one in flight.
C6_Witness ==
    /\ dispatches = 2
    /\ Len(inflight) = 1
    /\ toasts = <<ErrorToast>>

\* C7 as stated: the summary stored on serviceResolved contains the submitted
\* artifactName, and contains "with file" followed by the attachment's
\* filename if and only if the submitted values carried an attachment.
C7_WithFileIffAttachment ==
    [][ event' = "resolved" =>
          LET v == Head(inflight).values
              s == summary'[1] IN
          /\ Contains(s, v.artifactName)
          /\ Contains(s, "with file") <=> (v.artifactFile # Null)
          /\ (v.artifactFile # Null) =>
                 Contains(s, "with file: " \o v.artifactFile[1].name) ]_vars

\* C7 amended: the summary contains the submitted artifactName; with an
\* attachment it contains "with file: " followed by the filename; without
\* one it contains "with file" only if the artifactName itself does.
C7_WithFileFromAttachmentOrName ==
    [][ event' = "resolved" =>
          LET v == Head(inflight).values
              s == summary'[1] IN
          /\ Contains(s, v.artifactName)
          /\ (v.artifactFile # Null) =>
                 Contains(s, "with file: " \o v.artifactFile[1].name)
          /\ (v.artifactFile = Null) =>
                 (Contains(s, "with file") <=> Contains(v.artifactName, "with file")) ]_vars

\* Reached: the two scenarios, one after the other: a summary naming
\* "Phurba Dagger" and the file dagger.jpg is stored.
C7_Witness ==
    /\ event = "resolved"
    /\ summary # Null
    /\ Contains(summary[1], "\"Phurba Dagger\" (with file: dagger.jpg).")

\* C8: on a submit that is not ignored, validation reports an artifactName
\* error exactly when the name is shorter than 2 and a contributionText error
\* exactly when the text is shorter than 20, each independently of the other
\* and of the attachment; with neither it succeeds and hands the values on
\* unchanged.
C8_ValidateByLength ==
    [][ (event' = "submit" /\ ~isPending) =>
          /\ (\E e \in errors' : e.field = "artifactName")
                 <=> Len(formValues.artifactName) < 2
          /\ (\E e \in errors' : e.field = "contributionText")
                 <=> Len(formValues.contributionText) < 20
          /\ \A e \in errors' : e.field \in {"artifactName", "contributionText"}
          /\ (Len(formValues.artifactName) >= 2 /\ Len(formValues.contributionText) >= 20)
                 => /\ inflight' # <<>>
                    /\ inflight'[Len(inflight')].values = formValues ]_vars

\* Reached: the submit of "A" / "short" reported both field errors at once.
C8_Witness ==
    /\ event = "submit"
    /\ formValues.artifactName = "A"
    /\ formValues.contributionText = "short"
    /\ errors = {NameIssue, TextIssue}

\* C9: at most one attachment is held in every reachable state; a selection
\* leaves exactly the selected file as the attachment, whatever was held
\* before, and a selection carrying no file leaves none.
C9_AtMostOneAttachment ==
    /\ [](Len(formValues.artifactFile) <= 1 /\ Len(selectedFileName) <= 1)
    /\ [][ event' = "selectFile" =>
             /\ fileInput' = <<>> => AttachmentState' = <<Null, Null, <<>>>>
             /\ fileInput' # <<>> =>
                    /\ formValues'.artifactFile = <<fileInput'[1]>>
                    /\ selectedFileName' = <<fileInput'[1].name>> ]_vars

\* Reached: a submission went out with dagger.jpg, and while it is Pending a
\* second selection left notes.pdf as the only attachment.
C9_Witness ==
    /\ event = "selectFile"
    /\ Len(inflight) = 1
    /\ inflight[1].values.artifactFile # Null
    /\ inflight[1].values.artifactFile[1].name = "dagger.jpg"
    /\ formValues.artifactFile # Null
    /\ formValues.artifactFile[1].name = "notes.pdf"
    /\ selectedFileName = <<"notes.pdf">>

\* C10: selection never rejects a file for its mime type or size, and such
\* an attachment neither fails validation nor blocks dispatch: a submit that
\* is not ignored, with a long enough name and text, is dispatched with the
\* attachment whatever the file is.
C10_AnyFileAccepted ==
    /\ [][ (event' = "selectFile" /\ fileInput' # <<>>) =>
             formValues'.artifactFile = <<fileInput'[1]>> ]_vars
    /\ [][ (event' = "submit" /\ ~isPending
              /\ Len(formValues.artifactName) >= 2
              /\ Len(formValues.contributionText) >= 20) =>
             /\ errors' = {}
             /\ dispatches' = dispatches + 1
             /\ inflight'[Len(inflight')].values.artifactFile = formValues.artifactFile ]_vars

\* Reached: a 6MB PDF, outside the displayed guidance in type and size, is
\* the attachment of the submission in flight.
C10_Witness ==
    /\ isPending
    /\ Len(inflight) = 1
    /\ inflight[1].values.artifactFile # Null
    /\ ~FollowsGuidance(inflight[1].values.artifactFile[1])
    /\ errors = {}

\* C11: exactly one notification is emitted per service outcome and none on
\* any other event: a success notification on serviceResolved, together with
\* the transition to Succeeded, and an error notification on
\* serviceRejected, together with the transition to Failed.
C11_OneNotificationPerOutcome ==
    [][ /\ event' = "resolved" =>
              /\ toasts' = Append(toasts, [title |-> "Contribution Received!",
                                           variant |-> "default"])
              /\ ~isPending' /\ summary' # Null
        /\ event' = "rejected" =>
              /\ toasts' = Append(toasts, [title |-> "Error", variant |-> "destructive"])
              /\ ~isPending' /\ summary' = Null
        /\ event' \notin {"resolved", "rejected"} => toasts' = toasts ]_vars

\* Reached: two outcomes, a success then a rejection, and exactly their two
\* notifications in that order.
C11_Witness ==
    /\ event = "rejected"
    /\ dispatches = 2
    /\ inflight = <<>>
    /\ toasts = <<SuccessToast, ErrorToast>>

\* The last service outcome, read from the notification log.
LastOutcomeResolved == toasts # <<>> /\ toasts[Len(toasts)].variant = "default"

\* C12: in every reachable state the card shows exactly one of three views:
\* the pending indicator exactly when a submission is in flight, the result
\* text with the stored summary exactly when the last submission succeeded
\* and none is in flight, and the waiting prompt otherwise.
C12_CardProjectsState ==
    /\ SummaryCard.branch \in {"pending", "result", "waiting"}
    /\ SummaryCard.branch = "pending" <=> inflight # <<>>
    /\ SummaryCard.branch = "result" <=> (inflight = <<>> /\ LastOutcomeResolved)
    /\ SummaryCard.branch = "result" => SummaryCard.text = summary[1]
    /\ SummaryCard.branch = "waiting" <=> (inflight = <<>> /\ ~LastOutcomeResolved)

\* Reached: each of the three views, in one run: the result of a first
\* submission was shown, and the card now shows the pending indicator of a
\* second one.
C12_Witness ==
    /\ SummaryCard.branch = "pending"
    /\ toasts = <<SuccessToast>>
    /\ dispatches = 2

\* C13: field edits and file selection are accepted in every state, Pending
\* included, leave SubmissionState unchanged and dispatch nothing;
\* SubmissionState changes only on an accepted submit, serviceResolved or
\* serviceRejected, and Succeeded/Failed are entered only from Pending.
C13_OnlyControllerEventsChangeState ==
    /\ [](/\ \A v \in NameValues : ENABLED EditArtifactName(v)
          /\ \A v \in TextValues : ENABLED EditContributionText(v)
          /\ \A files \in FileLists : ENABLED handleFileChange(files))
    /\ [][ /\ event' \in {"editName", "editText", "selectFile"} =>
                 UNCHANGED <<SubmissionState, inflight, dispatches, toasts>>
           /\ SubmissionState' # SubmissionState =>
                 \/ event' = "submit" /\ ~isPending /\ Validate(formValues) = {}
                 \/ event' \in {"resolved", "rejected"}
           /\ event' \in {"resolved", "rejected"} => isPending /\ ~isPending' ]_vars

\* Reached: the name was edited while Pending and the controller is still
\* Pending with the same submission in flight.
C13_Witness ==
    /\ event = "editName"
    /\ isPending
    /\ Len(inflight) = 1
    /\ formValues.artifactName # inflight[1].values.artifactName

\* C14: the controller has no timeout or cancellation: Pending ends only by
\* a service outcome; and when the service response is weakly fair, every
\* accepted submit is eventually followed by Succeeded or Failed.
C14_PendingEndsOnlyByOutcome ==
    /\ [][ (isPending /\ ~isPending') => event' \in {"resolved", "rejected"} ]_vars
    /\ [][ (inflight # <<>> /\ inflight' # inflight) =>
              event' \in {"resolved", "rejected"} ]_vars
    /\ (isPending ~> (~isPending /\ event \in {"resolved", "rejected"}))

\* Reached: a submission that stayed Pending through an edit, a file
\* selection and an ignored submit has now been answered.
C14_Witness ==
    /\ event = "resolved"
    /\ ~isPending
    /\ inflight = <<>>
    /\ dispatches = 1
    /\ toasts = <<SuccessToast>>

\* The state of the specified machine that an implementation state stands
\* for: Pending <=> isPending, Succeeded(s) <=> ~isPending and summary = s,
\* Idle or Failed <=> ~isPending and summary = null.
Abs ==
    IF isPending THEN <<"Pending">>
    ELSE IF summary # Null THEN <<"Succeeded", summary[1]>>
    ELSE <<"IdleOrFailed">>

\* The rows of the specified transition table, over Abs.
RowSubmitValid ==
    /\ Abs # <<"Pending">> /\ event' = "submit" /\ Validate(formValues) = {}
    /\ Abs' = <<"Pending">>
    /\ dispatches' = dispatches + 1
RowSubmitInvalid ==
    /\ Abs # <<"Pending">> /\ event' = "submit" /\ Validate(formValues) # {}
    /\ Abs' = Abs
    /\ dispatches' = dispatches
RowSubmitWhilePending ==
    /\ Abs = <<"Pending">> /\ event' = "submit"
    /\ Abs' = Abs
    /\ dispatches' = dispatches
RowServiceResolved ==
    /\ Abs = <<"Pending">> /\ event' = "resolved"
    /\ Abs'[1] = "Succeeded"
    /\ formValues' = defaultValues /\ selectedFileName' = Null
    /\ Len(toasts') = Len(toasts) + 1 /\ toasts'[Len(toasts')].variant = "default"
RowServiceRejected ==
    /\ Abs = <<"Pending">> /\ event' = "rejected"
    /\ Abs' = <<"IdleOrFailed">>
    /\ formValues' = formValues /\ selectedFileName' = selectedFileName
    /\ Len(toasts') = Len(toasts) + 1 /\ toasts'[Len(toasts')].variant = "destructive"
RowStutter ==
    /\ event' \in {"editName", "editText", "selectFile"}
    /\ Abs' = Abs
    /\ dispatches' = dispatches /\ toasts' = toasts

\* C15: (isPending, summary) refines the specified machine under Abs: the
\* initial state stands for Idle and every implementation step is a row of
\* the transition table or a stuttering step.
C15_RefinesStateMachine ==
    /\ [](event = "mount" => Abs = <<"IdleOrFailed">>)
    /\ [][ \/ RowSubmitValid
           \/ RowSubmitInvalid
           \/ RowSubmitWhilePending
           \/ RowServiceResolved
           \/ RowServiceRejected
           \/ RowStutter ]_vars

\* Reached: the implementation went Idle -> Pending -> Succeeded -> Pending
\* -> Failed, and its state stands for Idle-or-Failed again.
C15_Witness ==
    /\ Abs = <<"IdleOrFailed">>
    /\ event = "rejected"
    /\ toasts = <<SuccessToast, ErrorToast>>
    /\ formValues # defaultValues

\* C16: in every reachable state the displayed file name, the form's
\* attachment value and the raw file input agree: the display name is the
\* held attachment's filename, or null when none is held, and the input holds
\* the same file; after a successful submission all three are empty.
C16_AttachmentViewsAgree ==
    /\ formValues.artifactFile = Null =>
           selectedFileName = Null /\ fileInput = <<>>
    /\ formValues.artifactFile # Null =>
           /\ selectedFileName = <<formValues.artifactFile[1].name>>
           /\ fileInput = <<formValues.artifactFile[1]>>
    /\ event = "resolved" =>
           formValues.artifactFile = Null /\ selectedFileName = Null /\ fileInput = <<>>

\* Reached: a submission carrying notes.pdf succeeded, and the form value,
\* the display name and the input are all empty.
C16_Witness ==
    /\ event = "resolved"
    /\ summary # Null
    /\ Contains(summary[1], "(with file: notes.pdf)")
    /\ formValues.artifactFile = Null
    /\ selectedFileName = Null
    /\ fileInput = <<>>

C18_SummaryFromSubmittedValues ==
    /\ [][ (event' = "submit" /\ ~isPending /\ Validate(formValues) = {}) =>
              /\ Len(inflight') = 1
              /\ inflight'[1].values = formValues ]_vars
    /\ [][ event' \in {"editName", "editText", "selectFile"} =>
              inflight' = inflight ]_vars
    /\ [][ event' = "resolved" =>
              LET v == Head(inflight).values IN
              summary' = << "Thank you for your submission about \"" \o v.artifactName
                            \o "\""
                            \o (IF v.artifactFile # Null
                                THEN " (with file: " \o v.artifactFile[1].name \o ")"
                                ELSE "")
                            \o ". The data has been received and will be authenticated and added to the archive." >> ]_vars

\* Reached: while a submission is Pending the user has changed both the name
\* and the file away from the submitted ones; the captured values are the
\* submitted ones.
C18_Witness ==
    /\ isPending
    /\ Len(inflight) = 1
    /\ inflight[1].values.artifactName = "Phurba Dagger"
    /\ inflight[1].values.artifactFile = <<[name |-> "dagger.jpg", size |-> 1048576,
                                            type |-> "image/jpeg"]>>
    /\ formValues.artifactName = "with file"
    /\ selectedFileName = <<"notes.pdf">>

====
